---- MODULE Spec2Model ----
(***************************************************************************)
(* A model of neurom/core/_neuron.py: a neuron morphology (a soma and a    *)
(* forest of typed section trees), the Neurite views over its root         *)
(* sections, and the iteration engine iter_neurites / iter_sections /      *)
(* iter_segments with the measures layered on it.                          *)
(*                                                                         *)
(* A section is identified by its id in the owning morphology; a point is  *)
(* a tuple <<x, y, z, r>> of integers.  Sequences stand for Python lists   *)
(* and for fully consumed iterators; the lazy iterators themselves are     *)
(* modelled step by step in SpecLazy.                                      *)
(***************************************************************************)
EXTENDS Integers, Sequences, FiniteSets, TLC

VARIABLES
    morph,      \* the Neuron (morphio.mut.Morphology): sections, root sections, soma
    call,       \* the operation called last, with its arguments
    result,     \* what that call returned (or the exception it raised)
    iters,      \* the live iterators returned by iter_sections and not yet dropped
    views,      \* the Neurite objects built so far; an object is known by its place
    cache       \* memoizer.cache of length, area and volume

vars == <<morph, call, result, iters, views, cache>>

---------------------------------------------------------------------------
(* Bounds of the model *)

MaxSections == 3

\* sections of a morphology of the tree specifications
MaxTreeSections == 4

---------------------------------------------------------------------------
(* Generic helpers on sequences *)

SeqToSet(s) == {s[i] : i \in DOMAIN s}

Reverse(s) == [i \in 1..Len(s) |-> s[Len(s) + 1 - i]]

RECURSIVE Flatten(_)
Flatten(ss) == IF ss = <<>> THEN <<>> ELSE Head(ss) \o Flatten(Tail(ss))

RECURSIVE SumSeq(_)
SumSeq(s) == IF s = <<>> THEN 0 ELSE Head(s) + SumSeq(Tail(s))

MaxOf(S) == CHOOSE x \in S : \A y \in S : y <= x

Ids(n) == [i \in 1..n |-> i]

---------------------------------------------------------------------------
(* Neurite types and the NRN simulator order *)

\* NeuriteType: the five types of the NRN table and one member ("all")
\* that the table does not map.
NeuriteTypes == {"soma", "axon", "basal_dendrite", "apical_dendrite", "undefined", "all"}

NRN_ORDER == [t \in {"soma", "axon", "basal_dendrite", "apical_dendrite", "undefined"} |->
                CASE t = "soma" -> 0
                  [] t = "axon" -> 1
                  [] t = "basal_dendrite" -> 2
                  [] t = "apical_dendrite" -> 3
                  [] t = "undefined" -> 4]

last_position_shared == MaxOf({NRN_ORDER[t] : t \in DOMAIN NRN_ORDER})

\* max(NRN_ORDER.values()) + 1
last_position == MaxOf({NRN_ORDER[t] : t \in DOMAIN NRN_ORDER}) + 1

\* key=lambda neurite: NRN_ORDER.get(neurite.type, last_position)
NrnKey(neurite) ==
    IF neurite.type \in DOMAIN NRN_ORDER THEN NRN_ORDER[neurite.type] ELSE last_position

\* sorted(): a stable sort.  An element is inserted after every element
\* whose key is less than or equal to its own.
RECURSIVE InsertByKey(_, _)
InsertByKey(sorted, x) ==
    IF sorted = <<>> THEN <<x>>
    ELSE IF NrnKey(Head(sorted)) <= NrnKey(x)
         THEN <<Head(sorted)>> \o InsertByKey(Tail(sorted), x)
         ELSE <<x>> \o sorted

RECURSIVE SortLoop(_, _)
SortLoop(done, rest) ==
    IF rest = <<>> THEN done ELSE SortLoop(InsertByKey(done, Head(rest)), Tail(rest))

\* one neurite kept per key: a later neurite of a key already seen is lost
RECURSIVE SortLoopUnique(_, _)
SortLoopUnique(done, rest) ==
    IF rest = <<>> THEN done
    ELSE IF \E i \in DOMAIN done : NrnKey(done[i]) = NrnKey(Head(rest))
         THEN SortLoopUnique(done, Tail(rest))
         ELSE SortLoopUnique(InsertByKey(done, Head(rest)), Tail(rest))

sorted_by_nrn_unique(neurites) == SortLoopUnique(<<>>, neurites)

sorted_by_nrn(neurites) == SortLoop(<<>>, neurites)

---------------------------------------------------------------------------
(* The morphology *)

Pt(x, y) == <<x, y, 0, 1>>

\* parent vectors of a forest of n sections; 0 is "no parent" (a root section)
ParentVectors(n) == {p \in [1..n -> 0..n] : \A i \in 1..n : p[i] < i}

ChildrenOf(p, s) == SelectSeq(Ids(Len(p)), LAMBDA i : p[i] = s)

RECURSIVE RootOf(_, _)
RootOf(p, s) == IF p[s] = 0 THEN s ELSE RootOf(p, p[s])

\* the number of sections on the path from the root to s, both included
RECURSIVE Depth(_, _)
Depth(p, s) == IF p[s] = 0 THEN 1 ELSE 1 + Depth(p, p[s])

Morphology(p, rtype, pts, soma) ==
    [parent        |-> p,
     children      |-> [s \in 1..Len(p) |-> ChildrenOf(p, s)],
     root_sections |-> ChildrenOf(p, 0),
     type          |-> [s \in 1..Len(p) |-> rtype[RootOf(p, s)]],
     points        |-> pts,
     soma          |-> soma]

Sections(m) == DOMAIN m.parent

---------------------------------------------------------------------------
(* Exceptions: a call either returns a value or raises *)

Raise(exc) == [raised |-> exc]

Raised(r) == "raised" \in DOMAIN r

---------------------------------------------------------------------------
(* Tree traversals of a section (Tree.ipreorder and friends) *)

\* children = deque((self,)); pop the last, push its children reversed
RECURSIVE PreorderLoop(_, _, _)
PreorderLoop(m, stack, out) ==
    IF stack = <<>> THEN out
    ELSE LET cur  == stack[Len(stack)]
             rest == SubSeq(stack, 1, Len(stack) - 1)
         IN PreorderLoop(m, rest \o Reverse(m.children[cur]), Append(out, cur))

\* the children pushed as stored, not reversed
RECURSIVE PreorderLoopUnreversed(_, _, _)
PreorderLoopUnreversed(m, stack, out) ==
    IF stack = <<>> THEN out
    ELSE LET cur  == stack[Len(stack)]
             rest == SubSeq(stack, 1, Len(stack) - 1)
         IN PreorderLoopUnreversed(m, rest \o m.children[cur], Append(out, cur))

ipreorder_unreversed(m, s) == PreorderLoopUnreversed(m, <<s>>, <<>>)

ipreorder(m, s) == PreorderLoop(m, <<s>>, <<>>)

\* a node is expanded the first time it is on top of the stack and yielded
\* the second time
RECURSIVE PostorderLoop(_, _, _, _)
PostorderLoop(m, stack, seen, out) ==
    IF stack = <<>> THEN out
    ELSE LET cur == stack[Len(stack)]
         IN IF cur \notin seen
            THEN PostorderLoop(m, stack \o Reverse(m.children[cur]), seen \cup {cur}, out)
            ELSE PostorderLoop(m, SubSeq(stack, 1, Len(stack) - 1), seen, Append(out, cur))

ipostorder(m, s) == PostorderLoop(m, <<s>>, {}, <<>>)

\* stops at the last node that has a parent
RECURSIVE iupstream_without_root(_, _)
iupstream_without_root(m, s) ==
    IF m.parent[s] = 0 THEN <<>> ELSE <<s>> \o iupstream_without_root(m, m.parent[s])

\* the node, then its parent, ... until no parent remains
RECURSIVE iupstream(_, _)
iupstream(m, s) ==
    IF m.parent[s] = 0 THEN <<s>> ELSE <<s>> \o iupstream(m, m.parent[s])

is_leaf(m, s) == Len(m.children[s]) = 0

is_bifurcation_point(m, s) == Len(m.children[s]) >= 2

ileaf(m, s) == SelectSeq(ipreorder(m, s), LAMBDA x : is_leaf(m, x))

ibifurcation_point(m, s) == SelectSeq(ipreorder(m, s), LAMBDA x : is_bifurcation_point(m, x))

IteratorTypes == {"ipreorder", "ipostorder", "iupstream", "ibifurcation_point", "ileaf"}

Traverse(iterator_type, m, s) ==
    CASE iterator_type = "ipreorder"          -> ipreorder(m, s)
      [] iterator_type = "ipostorder"         -> ipostorder(m, s)
      [] iterator_type = "iupstream"          -> iupstream(m, s)
      [] iterator_type = "ibifurcation_point" -> ibifurcation_point(m, s)
      [] iterator_type = "ileaf"              -> ileaf(m, s)

---------------------------------------------------------------------------
(* Neurite and Neuron *)

\* Neurite.__init__(self, section_id, morphology), called with the
\* positional arguments args: any other number of arguments is a TypeError.
\* root_node, Section(section_id, morphology), is the handle of that
\* section: its id in the morphology.
Neurite(args) ==
    IF Len(args) # 2 THEN Raise("TypeError")
    ELSE [section_id |-> args[1],
          type       |-> args[2].type[args[1]],
          root_node  |-> args[1]]

\* the view of the last root section is missing
Neuron_neurites_drop_last(m) ==
    [i \in 1..(Len(m.root_sections) - 1) |-> Neurite(<<m.root_sections[i], m>>)]

\* Neuron.neurites: new views, one per root section
Neuron_neurites(m) ==
    [i \in DOMAIN m.root_sections |-> Neurite(<<m.root_sections[i], m>>)]

---------------------------------------------------------------------------
(* iter_neurites, iter_sections *)

NoFilter == [kind |-> "None"]

IsType(t) == [kind |-> "is_type", type |-> t]

\* filt(neurite) for the filters lambda n: n.type == t
ApplyFilt(filt, neurite) == neurite.type = filt.type

\* mapfun(neurite)
ApplyMap(mapfun, neurite) ==
    CASE mapfun = "type"       -> neurite.type
      [] mapfun = "section_id" -> neurite.section_id

\* filter(filt, neurites), consumed
PyFilter(filt, neurites) == SelectSeq(neurites, LAMBDA n : ApplyFilt(filt, n))

\* map(mapfun, neurite_iter), consumed: the values, and the arguments
\* mapfun was called with
PyMap(mapfun, neurite_iter) ==
    [out   |-> [i \in DOMAIN neurite_iter |-> ApplyMap(mapfun, neurite_iter[i])],
     calls |-> neurite_iter]

\* the source of neurites: a Neurite, an object with .neurites, or an iterable
Source(m, obj) ==
    IF obj.kind = "Neurite" THEN <<obj.neurite>>
    ELSE IF obj.kind = "Neuron" THEN Neuron_neurites(m)
    ELSE obj.items

iter_neurites_map_first(m, obj, mapfun, filt, neurite_order) ==
    LET neurites0 == Source(m, obj)
        neurites  == IF neurite_order = "NRN" THEN sorted_by_nrn(neurites0) ELSE neurites0
        kept      == IF filt = NoFilter THEN neurites ELSE PyFilter(filt, neurites)
    IN IF mapfun = "None" THEN [out |-> kept, calls |-> <<>>]
       ELSE [out |-> PyMap(mapfun, kept).out, calls |-> neurites]

\* the filter is not applied
iter_neurites_keep_all(m, obj, mapfun, filt, neurite_order) ==
    LET neurites0 == Source(m, obj)
        neurites  == IF neurite_order = "NRN" THEN sorted_by_nrn(neurites0) ELSE neurites0
    IN IF mapfun = "None" THEN [out |-> neurites, calls |-> <<>>]
       ELSE PyMap(mapfun, neurites)

iter_neurites(m, obj, mapfun, filt, neurite_order) ==
    LET neurites0    == Source(m, obj)
        neurites     == IF neurite_order = "NRN" THEN sorted_by_nrn(neurites0) ELSE neurites0
        neurite_iter == IF filt = NoFilter THEN neurites ELSE PyFilter(filt, neurites)
    IN IF mapfun = "None" THEN [out |-> neurite_iter, calls |-> <<>>]
       ELSE PyMap(mapfun, neurite_iter)

iter_sections_no_filter(m, neurites, iterator_type, neurite_filter, neurite_order) ==
    LET ns == iter_neurites(m, neurites, "None", NoFilter, neurite_order).out
    IN Flatten([i \in DOMAIN ns |-> Traverse(iterator_type, m, ns[i].root_node)])

\* chain.from_iterable(iterator_type(neurite.root_node) for neurite in iter_neurites(...))
iter_sections(m, neurites, iterator_type, neurite_filter, neurite_order) ==
    LET ns == iter_neurites(m, neurites, "None", neurite_filter, neurite_order).out
    IN Flatten([i \in DOMAIN ns |-> Traverse(iterator_type, m, ns[i].root_node)])

---------------------------------------------------------------------------
(* Inputs *)

Filters == {NoFilter, IsType("axon"), IsType("basal_dendrite")}

MapFuns == {"None", "type"}

NeuriteOrders == {"FileOrder", "NRN"}

\* what a caller can pass as obj: the neuron, one of its neurites, or a
\* list of neurites built from them
Objects(m) ==
    LET N == Neuron_neurites(m)
    IN {[kind |-> "Neuron"]}
       \cup {[kind |-> "Neurite", neurite |-> N[i]] : i \in DOMAIN N}
       \cup {[kind |-> "Iterable", items |-> Reverse(N)]}
       \cup {[kind |-> "Iterable", items |-> SubSeq(N, 2, Len(N))]}

---------------------------------------------------------------------------
(* Initial states *)

\* a forest of at most MaxSections sections, every root of any type, every
\* section of two points running from its parent's last point
TypedMorphologies ==
    UNION {UNION {{Morphology(p, rtype,
                              [s \in 1..n |-> <<Pt(Depth(p, s) - 1, 0), Pt(Depth(p, s), 0)>>],
                              <<Pt(0, 0)>>)
                      : rtype \in [SeqToSet(ChildrenOf(p, 0)) -> NeuriteTypes]}
                  : p \in ParentVectors(n)}
           : n \in 0..MaxSections}

\* the children of every section, and the root sections, stored in the
\* reverse of the order of their ids
ReverseChildren(m) ==
    [m EXCEPT !.children = [s \in DOMAIN m.children |-> Reverse(m.children[s])],
              !.root_sections = Reverse(m.root_sections)]

\* a forest of at most max axon sections, the children stored in either
\* order
TreeMorphologies(max) ==
    LET M(p) == Morphology(p, [s \in 1..Len(p) |-> "axon"],
                           [s \in 1..Len(p) |-> <<Pt(Depth(p, s) - 1, 0), Pt(Depth(p, s), 0)>>],
                           <<Pt(0, 0)>>)
    IN UNION {UNION {{M(p), ReverseChildren(M(p))} : p \in ParentVectors(n)}
              : n \in 0..max}

NoCall == [op |-> "none"]

None == [none |-> TRUE]

NoIterators == <<None, None>>

\* memoizer.cache = {}
NoCache == <<>>

Init ==
    /\ morph \in TypedMorphologies
    /\ call = NoCall
    /\ result = None
    /\ iters = NoIterators
    /\ views = <<>>
    /\ cache = NoCache

---------------------------------------------------------------------------
(* Operations *)

IterNeurites ==
    /\ call = NoCall
    /\ \E obj \in Objects(morph), mapfun \in MapFuns, filt \in Filters,
          neurite_order \in NeuriteOrders :
          /\ call' = [op |-> "iter_neurites", obj |-> obj, mapfun |-> mapfun,
                      filt |-> filt, neurite_order |-> neurite_order]
          /\ result' = iter_neurites(morph, obj, mapfun, filt, neurite_order)
    /\ UNCHANGED <<morph, iters, views, cache>>

IterSections ==
    /\ call = NoCall
    /\ \E obj \in Objects(morph), iterator_type \in IteratorTypes, filt \in Filters,
          neurite_order \in NeuriteOrders :
          /\ call' = [op |-> "iter_sections", obj |-> obj, iterator_type |-> iterator_type,
                      filt |-> filt, neurite_order |-> neurite_order]
          /\ result' = [out |-> iter_sections(morph, obj, iterator_type, filt, neurite_order)]
    /\ UNCHANGED <<morph, iters, views, cache>>

\* a traversal started at any section of the morphology
TreeTraverse ==
    /\ call = NoCall
    /\ \E s \in Sections(morph), iterator_type \in IteratorTypes :
          /\ call' = [op |-> "traverse", node |-> s, iterator_type |-> iterator_type]
          /\ result' = [out |-> Traverse(iterator_type, morph, s)]
    /\ UNCHANGED <<morph, iters, views, cache>>

\* the caller is done with the value returned
Return ==
    /\ call # NoCall
    /\ call' = NoCall
    /\ result' = None
    /\ UNCHANGED <<morph, iters, views, cache>>

Next == IterNeurites \/ IterSections \/ TreeTraverse \/ Return

Spec == Init /\ [][Next]_vars

---------------------------------------------------------------------------
(* The tree specification: traversals of forests of up to MaxTreeSections *)

InitTree ==
    /\ morph \in TreeMorphologies(MaxTreeSections)
    /\ call = NoCall
    /\ result = None
    /\ iters = NoIterators
    /\ views = <<>>
    /\ cache = NoCache

NextTree == TreeTraverse \/ Return

SpecTree == InitTree /\ [][NextTree]_vars

---------------------------------------------------------------------------
(* Lazy iterators: the generator objects, advanced one next() at a time *)

\* a traversal generator just created on section s: its local variables
TravNew(iterator_type, s) ==
    [kind |-> iterator_type, stack |-> <<s>>, seen |-> {}, t |-> s]

Stop(tr) == [stop |-> TRUE, tr |-> tr, value |-> 0]

Yield(tr, v) == [stop |-> FALSE, tr |-> tr, value |-> v]

\* next() on an ipreorder generator
PreorderNext(m, tr) ==
    IF tr.stack = <<>> THEN Stop(tr)
    ELSE LET cur  == tr.stack[Len(tr.stack)]
             rest == SubSeq(tr.stack, 1, Len(tr.stack) - 1)
         IN Yield([tr EXCEPT !.stack = rest \o Reverse(m.children[cur])], cur)

\* next() on an ipostorder generator
RECURSIVE PostorderNext(_, _)
PostorderNext(m, tr) ==
    IF tr.stack = <<>> THEN Stop(tr)
    ELSE LET cur == tr.stack[Len(tr.stack)]
         IN IF cur \notin tr.seen
            THEN PostorderNext(m, [tr EXCEPT !.stack = tr.stack \o Reverse(m.children[cur]),
                                             !.seen = tr.seen \cup {cur}])
            ELSE Yield([tr EXCEPT !.stack = SubSeq(tr.stack, 1, Len(tr.stack) - 1)], cur)

\* next() on an iupstream generator; t = 0 is None
UpstreamNext(m, tr) ==
    IF tr.t = 0 THEN Stop(tr)
    ELSE Yield([tr EXCEPT !.t = m.parent[tr.t]], tr.t)

\* next() on filter(pred, ipreorder): advance to the next node pred accepts
RECURSIVE FilteredNext(_, _, _)
FilteredNext(m, tr, leaves) ==
    LET r == PreorderNext(m, tr)
    IN IF r.stop THEN r
       ELSE IF (IF leaves THEN is_leaf(m, r.value) ELSE is_bifurcation_point(m, r.value))
            THEN r
            ELSE FilteredNext(m, r.tr, leaves)

TravNext(m, tr) ==
    CASE tr.kind = "ipreorder"          -> PreorderNext(m, tr)
      [] tr.kind = "ipostorder"         -> PostorderNext(m, tr)
      [] tr.kind = "iupstream"          -> UpstreamNext(m, tr)
      [] tr.kind = "ibifurcation_point" -> FilteredNext(m, tr, FALSE)
      [] tr.kind = "ileaf"              -> FilteredNext(m, tr, TRUE)

\* the object iter_sections returns: the neurites iter_neurites was called
\* on (the list is built, and sorted, by the call; the filter is applied as
\* they are pulled), the traversal of the current neurite, and, for the
\* properties, the values yielded so far
IterSectionsNew(m, args) ==
    LET neurites0 == Source(m, args.obj)
    IN [args     |-> args,
        neurites |-> IF args.neurite_order = "NRN" THEN sorted_by_nrn(neurites0) ELSE neurites0,
        inner    |-> None,
        yielded  |-> <<>>,
        done     |-> FALSE]

\* next() on the chain: the current traversal's next value, or, when it is
\* exhausted, the first value of the traversal of the next neurite that
\* passes the filter
RECURSIVE ChainNext(_, _)
ChainNext(m, it) ==
    IF it.inner # None
    THEN LET r == TravNext(m, it.inner)
         IN IF r.stop THEN ChainNext(m, [it EXCEPT !.inner = None])
            ELSE [it EXCEPT !.inner = r.tr, !.yielded = Append(it.yielded, r.value)]
    ELSE IF it.neurites = <<>> THEN [it EXCEPT !.done = TRUE]
    ELSE LET n == Head(it.neurites)
         IN IF it.args.filt = NoFilter \/ ApplyFilt(it.args.filt, n)
            THEN ChainNext(m, [it EXCEPT !.neurites = Tail(it.neurites),
                                         !.inner = TravNew(it.args.iterator_type, n.root_node)])
            ELSE ChainNext(m, [it EXCEPT !.neurites = Tail(it.neurites)])

\* one cursor per (source, traversal): advancing an iterator advances every
\* live iterator created with the same arguments
AdvanceShared(m, its, i) ==
    LET r == ChainNext(m, its[i])
    IN [j \in DOMAIN its |->
          IF j = i THEN r
          ELSE IF its[j] # None /\ its[j].args = its[i].args
               THEN [r EXCEPT !.yielded = its[j].yielded]
               ELSE its[j]]

\* next(its[i]): only the state of that iterator changes
Advance(m, its, i) == [its EXCEPT ![i] = ChainNext(m, its[i])]

\* it = iter_sections(obj, iterator_type): a new iterator in slot i
NewIterator ==
    \E i \in DOMAIN iters, obj \in Objects(morph), iterator_type \in IteratorTypes :
        /\ obj.kind \in {"Neuron", "Neurite"}
        /\ iters' = [iters EXCEPT ![i] =
                        IterSectionsNew(morph, [obj |-> obj, iterator_type |-> iterator_type,
                                                filt |-> NoFilter, neurite_order |-> "FileOrder"])]
        /\ UNCHANGED <<morph, call, result, views, cache>>

\* next(it) on a live iterator that has not raised StopIteration
NextValue ==
    \E i \in DOMAIN iters :
        /\ iters[i] # None
        /\ ~ iters[i].done
        /\ iters' = Advance(morph, iters, i)
        /\ UNCHANGED <<morph, call, result, views, cache>>

InitLazy ==
    /\ morph \in TreeMorphologies(MaxSections)
    /\ call = NoCall
    /\ result = None
    /\ iters = NoIterators
    /\ views = <<>>
    /\ cache = NoCache

NextLazy == NewIterator \/ NextValue

SpecLazy == InitLazy /\ [][NextLazy]_vars

---------------------------------------------------------------------------
(* Segments, point clouds, transforms, Sholl crossings *)

\* COLS.XYZ and COLS.XYZR: the first three and the first four columns
XYZ(pt) == <<pt[1], pt[2], pt[3]>>

XYZR(pt) == <<pt[1], pt[2], pt[3], pt[4]>>

Min(a, b) == IF a <= b THEN a ELSE b

\* zip(a, b): as many pairs as the shorter has items
Zip(a, b) == [i \in 1..Min(Len(a), Len(b)) |-> <<a[i], b[i]>>]

\* points[:-1], points[1:], points[2:]
AllButLast(points) == SubSeq(points, 1, Len(points) - 1)

AllButFirst(points) == SubSeq(points, 2, Len(points))

AllButFirstTwo(points) == SubSeq(points, 3, Len(points))

SectionsOf(m, obj, neurite_filter, neurite_order) ==
    IF obj.kind = "Section" THEN <<obj.section>>
    ELSE iter_sections(m, obj, "ipreorder", neurite_filter, neurite_order)

\* every section paired with the point after next
iter_segments_skip(m, obj, neurite_filter, neurite_order) ==
    LET sections == SectionsOf(m, obj, neurite_filter, neurite_order)
    IN Flatten([i \in DOMAIN sections |->
                  Zip(AllButLast(m.points[sections[i]]), AllButFirstTwo(m.points[sections[i]]))])

\* only the sections the neurites start with
iter_segments_roots_only(m, obj, neurite_filter, neurite_order) ==
    LET sections == IF obj.kind = "Section" THEN <<obj.section>>
                    ELSE iter_sections(m, obj, "iupstream", neurite_filter, neurite_order)
    IN Flatten([i \in DOMAIN sections |->
                  Zip(AllButLast(m.points[sections[i]]), AllButFirst(m.points[sections[i]]))])

\* chain.from_iterable(zip(sec.points[:-1], sec.points[1:]) for sec in sections)
iter_segments(m, obj, neurite_filter, neurite_order) ==
    LET sections == SectionsOf(m, obj, neurite_filter, neurite_order)
    IN Flatten([i \in DOMAIN sections |->
                  Zip(AllButLast(m.points[sections[i]]), AllButFirst(m.points[sections[i]]))])

\* every point of every section, the first of a child included
Neurite_points_keep_first(m, neurite) ==
    LET pre == ipreorder(m, neurite.root_node)
    IN <<XYZR(m.points[neurite.root_node][1])>>
         \o Flatten([i \in DOMAIN pre |->
                       IF pre[i] = neurite.root_node THEN AllButFirst(m.points[pre[i]])
                       ELSE m.points[pre[i]]])

\* Neurite.points: root_node.points[0], then s.points[1:] of every section
\* of root_node.ipreorder()
Neurite_points(m, neurite) ==
    LET pre == ipreorder(m, neurite.root_node)
    IN <<XYZR(m.points[neurite.root_node][1])>>
         \o Flatten([i \in DOMAIN pre |->
                       [j \in DOMAIN AllButFirst(m.points[pre[i]]) |->
                           XYZR(AllButFirst(m.points[pre[i]])[j])]])

\* the transformations a caller passes: functions of the XYZ columns
Transformations == {"identity", "translate"}

ApplyTrans(trans, xyz) ==
    CASE trans = "identity"  -> xyz
      [] trans = "translate" -> <<xyz[1] + 1, xyz[2] + 2, xyz[3]>>

\* n.points[:, COLS.XYZ] = trans(n.points[:, COLS.XYZ])
TransformPoints(trans, points) ==
    [i \in DOMAIN points |->
        LET t == ApplyTrans(trans, XYZ(points[i]))
        IN <<t[1], t[2], t[3], points[i][4]>>]

\* Neurite.__deepcopy__: Neurite(deepcopy(self.root_node, memo)), one
\* positional argument
Neurite_deepcopy(neurite) == Neurite(<<neurite.root_node>>)

\* Neurite.transform: the clone, and the points of its sections
Neurite_transform(m, neurite, trans) ==
    LET clone == Neurite_deepcopy(neurite)
    IN IF Raised(clone) THEN clone
       ELSE [neurite |-> clone,
             points  |-> [s \in SeqToSet(iter_sections(m, [kind |-> "Neurite", neurite |-> clone],
                                                       "ipreorder", NoFilter, "FileOrder")) |->
                             TransformPoints(trans, m.points[s])]]

\* Neuron.__init__(self, handle, name=None), called with the positional
\* arguments args and the keyword arguments kwargs
Neuron(args, kwargs) ==
    IF \/ Len(args) < 1
       \/ Len(args) > 2
       \/ Len(args) = 2 /\ "name" \in kwargs
       \/ kwargs \ {"name"} # {}
    THEN Raise("TypeError")
    ELSE [handle |-> args[1]]

RECURSIVE FirstRaised(_)
FirstRaised(rs) ==
    IF rs = <<>> THEN None
    ELSE IF Raised(Head(rs)) THEN Head(rs) ELSE FirstRaised(Tail(rs))

\* Neuron.transform: Neuron(self.soma.transform(trans),
\*                          [neurite.transform(trans) for neurite in self.neurites],
\*                          name=self.name)
Neuron_transform(m, trans) ==
    LET soma     == TransformPoints(trans, m.soma)
        ns       == Neuron_neurites(m)
        neurites == [i \in DOMAIN ns |-> Neurite_transform(m, ns[i], trans)]
    IN IF FirstRaised(neurites) # None THEN FirstRaised(neurites)
       ELSE LET new == Neuron(<<soma, neurites>>, {"name"})
            IN IF Raised(new) THEN new
               ELSE [soma     |-> soma,
                     neurites |-> neurites,
                     points   |-> [s \in Sections(m) |-> TransformPoints(trans, m.points[s])]]

\* morphmath.point_dist2
point_dist2(a, b) ==
    (a[1] - b[1]) * (a[1] - b[1]) + (a[2] - b[2]) * (a[2] - b[2]) + (a[3] - b[3]) * (a[3] - b[3])

\* a segment crosses the sphere when the squared radius lies between the
\* squared distances of its two ends, either end on the sphere included
Crosses(center, segment, radius) ==
    LET r2          == radius * radius
        start_dist2 == point_dist2(center, segment[1])
        end_dist2   == point_dist2(center, segment[2])
    IN \/ start_dist2 <= r2 /\ r2 <= end_dist2
       \/ end_dist2 <= r2 /\ r2 <= start_dist2

count_crossings(m, neurite, center, radius) ==
    LET segments == iter_segments(m, [kind |-> "Neurite", neurite |-> neurite],
                                  NoFilter, "FileOrder")
    IN Len(SelectSeq(segments, LAMBDA seg : Crosses(center, seg, radius)))

\* sholl_crossings(neurites, center, radii): for every radius, the sum
\* over iter_neurites(neurites) of the crossings of the neurite's segments
sholl_crossings(m, obj, center, radii) ==
    LET ns == iter_neurites(m, obj, "None", NoFilter, "FileOrder").out
    IN [k \in DOMAIN radii |->
          SumSeq([i \in DOMAIN ns |-> count_crossings(m, ns[i], center, radii[k])])]

---------------------------------------------------------------------------
(* The geometry specification: morphologies whose sections differ in their
   points, and the two neurons of the Sholl tests *)

\* the point lists a section is given: one, two or three points
PointSeqs ==
    {<<Pt(2, 0)>>,
     <<Pt(0, 0), Pt(1, 0)>>,
     <<Pt(1, 0), Pt(3, 0), Pt(2, 1)>>}

\* a forest of at most MaxSections sections, every section with any of the
\* point lists; the root sections alternate between basal dendrite and axon
GeomMorphologies ==
    UNION {UNION {{Morphology(p,
                              [s \in 1..n |-> IF s % 2 = 1 THEN "basal_dendrite" ELSE "axon"],
                              pts, <<Pt(0, 0)>>)
                      : pts \in [1..n -> PointSeqs]}
                  : p \in ParentVectors(n)}
           : n \in 0..MaxSections}

\* simple.swc, lengths in tenths: a basal dendrite up to (0, 5) and an axon
\* down to (0, -4), each forking to the left and to the right
SIMPLE ==
    Morphology(<<0, 1, 1, 0, 4, 4>>,
               [s \in 1..6 |-> IF s = 1 THEN "basal_dendrite" ELSE "axon"],
               << <<(<<0, 0, 0, 10>>), (<<0, 50, 0, 10>>)>>,
                  <<(<<0, 50, 0, 10>>), (<<-50, 50, 0, 0>>)>>,
                  <<(<<0, 50, 0, 10>>), (<<60, 50, 0, 0>>)>>,
                  <<(<<0, 0, 0, 10>>), (<<0, -40, 0, 10>>)>>,
                  <<(<<0, -40, 0, 10>>), (<<60, -40, 0, 0>>)>>,
                  <<(<<0, -40, 0, 10>>), (<<-50, -40, 0, 0>>)>> >>,
               <<(<<0, 0, 0, 10>>)>>)

\* morph_A of test_sholl_analysis_custom: two straight neurites of length 80
MORPH_A ==
    Morphology(<<0, 0>>,
               [s \in 1..2 |-> IF s = 1 THEN "basal_dendrite" ELSE "apical_dendrite"],
               << <<(<<0, 0, 0, 1>>), (<<80, 0, 0, 1>>)>>,
                  <<(<<0, 0, 0, 1>>), (<<-80, 0, 0, 1>>)>> >>,
               <<(<<0, 0, 0, 1>>)>>)

Centers == {<<0, 0, 0>>, <<1, 0, 0>>}

RadiiLists ==
    {<<>>, <<1>>, <<2, 1, 3>>,
     <<10>>, <<10, 51>>, <<10, 40, 50>>,
     <<10, 20, 30, 40, 50, 60, 70, 80>>}

\* what iter_segments is called on: what iter_neurites takes, or a section
SegmentSources(m) == Objects(m) \cup {[kind |-> "Section", section |-> s] : s \in Sections(m)}

InitGeom ==
    /\ morph \in GeomMorphologies \cup {SIMPLE, MORPH_A}
    /\ call = NoCall
    /\ result = None
    /\ iters = NoIterators
    /\ views = <<>>
    /\ cache = NoCache

IterSegments ==
    /\ call = NoCall
    /\ \E obj \in SegmentSources(morph), filt \in Filters, neurite_order \in NeuriteOrders :
          /\ call' = [op |-> "iter_segments", obj |-> obj, filt |-> filt,
                      neurite_order |-> neurite_order]
          /\ result' = [out |-> iter_segments(morph, obj, filt, neurite_order)]
    /\ UNCHANGED <<morph, iters, views, cache>>

NeuritePoints ==
    /\ call = NoCall
    /\ \E i \in DOMAIN Neuron_neurites(morph) :
          /\ call' = [op |-> "Neurite.points", neurite |-> Neuron_neurites(morph)[i]]
          /\ result' = [out |-> Neurite_points(morph, Neuron_neurites(morph)[i])]
    /\ UNCHANGED <<morph, iters, views, cache>>

\* neurite.transform(trans): the exception propagates before any section
\* is written, or the clone is returned
NeuriteTransform ==
    /\ call = NoCall
    /\ \E i \in DOMAIN Neuron_neurites(morph), trans \in Transformations :
          /\ call' = [op |-> "Neurite.transform", neurite |-> Neuron_neurites(morph)[i],
                      trans |-> trans]
          /\ result' = Neurite_transform(morph, Neuron_neurites(morph)[i], trans)
    /\ UNCHANGED <<morph, iters, views, cache>>

NeuronTransform ==
    /\ call = NoCall
    /\ \E trans \in Transformations :
          /\ call' = [op |-> "Neuron.transform", trans |-> trans]
          /\ result' = Neuron_transform(morph, trans)
    /\ UNCHANGED <<morph, iters, views, cache>>

ShollCrossings ==
    /\ call = NoCall
    /\ \E center \in Centers, radii \in RadiiLists :
          /\ call' = [op |-> "sholl_crossings", center |-> center, radii |-> radii]
          /\ result' = [out |-> sholl_crossings(morph, [kind |-> "Neuron"], center, radii)]
    /\ UNCHANGED <<morph, iters, views, cache>>

\* the crossings counted over the segments in the order iter_segments
\* yields them
crossings_of_segments(segments, center, radii) ==
    [k \in DOMAIN radii |->
        Len(SelectSeq(segments, LAMBDA seg : Crosses(center, seg, radii[k])))]

\* the Sholl counts of the neuron with its segments enumerated in the given
\* neurite order
ShollCrossingsInOrder ==
    /\ call = NoCall
    /\ \E center \in Centers, radii \in RadiiLists, neurite_order \in NeuriteOrders :
          /\ call' = [op |-> "sholl_crossings_in_order", center |-> center, radii |-> radii,
                      neurite_order |-> neurite_order]
          /\ result' = [out |-> crossings_of_segments(
                                   iter_segments(morph, [kind |-> "Neuron"], NoFilter,
                                                 neurite_order),
                                   center, radii),
                        segments |-> iter_segments(morph, [kind |-> "Neuron"], NoFilter,
                                                   neurite_order)]
    /\ UNCHANGED <<morph, iters, views, cache>>

NextGeom ==
    IterSegments \/ NeuritePoints \/ NeuriteTransform \/ NeuronTransform \/ ShollCrossings
        \/ ShollCrossingsInOrder \/ Return

SpecGeom == InitGeom /\ [][NextGeom]_vars

\* test_sholl_crossings_simple and morph_A of test_sholl_analysis_custom
test_sholl_crossings ==
    (call.op = "sholl_crossings" /\ call.center = <<0, 0, 0>>) =>
        /\ (morph = SIMPLE /\ call.radii = <<>>) => result.out = <<>>
        /\ (morph = SIMPLE /\ call.radii = <<10>>) => result.out = <<2>>
        /\ (morph = SIMPLE /\ call.radii = <<10, 51>>) => result.out = <<2, 4>>
        /\ (morph = SIMPLE /\ call.radii = <<10, 40, 50>>) => result.out = <<2, 4, 5>>
        /\ (morph = MORPH_A /\ call.radii = <<10, 20, 30, 40, 50, 60, 70, 80>>)
              => result.out = <<2, 2, 2, 2, 2, 2, 2, 2>>

---------------------------------------------------------------------------
(* Trunk measures: trunk_vectors, trunk_angles, trunk_origin_elevations.
   Angles are counted in quarter turns (pi/2); the trunks of the model point
   along the x or the y axis, or have no length at all. *)

Ang(n) == [half_pi |-> n]

NaN == [nan |-> TRUE]

\* NeuriteType.all matches every neurite
is_type(neurite_type, neurite) == neurite_type = "all" \/ neurite.type = neurite_type

\* soma.center of a single-point soma
soma_center(m) == XYZ(m.soma[1])

\* morphmath.vector(p1, p2): p1 - p2
vector(p1, p2) == <<p1[1] - p2[1], p1[2] - p2[2], p1[3] - p2[3]>>

IsZero(v) == v[1] = 0 /\ v[2] = 0 /\ v[3] = 0

\* the neurites of the neuron that match, in the order of neuron.neurites
MatchingNeurites(m, neurite_type) ==
    SelectSeq(Neuron_neurites(m), LAMBDA n : is_type(neurite_type, n))

\* trunk_vectors: first point of the root section minus the soma center
trunk_vectors(m, neurite_type) ==
    LET ns == MatchingNeurites(m, neurite_type)
    IN [i \in DOMAIN ns |-> vector(m.points[ns[i].root_node][1], soma_center(m))]

\* arctan2(y, x) of a vector along an axis of the x-y plane, in quarter
\* turns; of (0, 0) normalised by its norm, nan
arctan2(v) ==
    CASE v[1] > 0 /\ v[2] = 0 -> Ang(0)
      [] v[1] = 0 /\ v[2] > 0 -> Ang(1)
      [] v[1] < 0 /\ v[2] = 0 -> Ang(2)
      [] v[1] = 0 /\ v[2] < 0 -> Ang(-1)
      [] v[1] = 0 /\ v[2] = 0 -> NaN

\* _sort_angle(v / norm(v), [0, 1]): the angle from the y axis
sort_angle(v) ==
    IF arctan2(v) = NaN THEN NaN ELSE Ang(arctan2(v).half_pi - arctan2(<<0, 1, 0>>).half_pi)

\* argsort: ascending, nan last
SortsBefore(a, b) == a # NaN /\ (b = NaN \/ a.half_pi <= b.half_pi)

RECURSIVE InsertByAngle(_, _)
InsertByAngle(sorted, v) ==
    IF sorted = <<>> THEN <<v>>
    ELSE IF SortsBefore(sort_angle(Head(sorted)), sort_angle(v)) \/ sort_angle(v) = NaN
         THEN <<Head(sorted)>> \o InsertByAngle(Tail(sorted), v)
         ELSE <<v>> \o sorted

RECURSIVE SortByAngle(_, _)
SortByAngle(done, rest) ==
    IF rest = <<>> THEN done ELSE SortByAngle(InsertByAngle(done, Head(rest)), Tail(rest))

\* morphmath.angle_between_vectors in the x-y plane: between 0 and pi
angle_between_vectors(p1, p2) ==
    IF arctan2(p1) = NaN \/ arctan2(p2) = NaN THEN NaN
    ELSE LET d == (arctan2(p1).half_pi - arctan2(p2).half_pi + 4) % 4
         IN Ang(IF d = 3 THEN 1 ELSE d)

\* trunk_angles: nothing without trunks; else the trunks sorted by their
\* angle from the y axis, and the angle of each to the one before it, the
\* first to the last
trunk_angles(m, neurite_type) ==
    LET vectors == trunk_vectors(m, neurite_type)
        ordered == SortByAngle(<<>>, vectors)
    IN IF vectors = <<>> THEN <<>>
       ELSE [i \in DOMAIN ordered |->
               angle_between_vectors(ordered[i],
                                     ordered[IF i = 1 THEN Len(ordered) ELSE i - 1])]

\* a trunk without direction is given the elevation 0
elevation_silent(v) ==
    CASE v[2] > 0 /\ v[1] = 0 /\ v[3] = 0 -> Ang(1)
      [] v[2] < 0 /\ v[1] = 0 /\ v[3] = 0 -> Ang(-1)
      [] v[2] = 0 -> Ang(0)

\* _elevation: arcsin(y / norm), or ValueError when the norm is zero
elevation(v) ==
    IF IsZero(v) THEN Raise("ValueError")
    ELSE CASE v[2] > 0 /\ v[1] = 0 /\ v[3] = 0 -> Ang(1)
           [] v[2] < 0 /\ v[1] = 0 /\ v[3] = 0 -> Ang(-1)
           [] v[2] = 0 -> Ang(0)

\* trunk_origin_elevations: the elevation of every matching trunk; the
\* first ValueError propagates
trunk_origin_elevations(m, neurite_type) ==
    LET vectors    == trunk_vectors(m, neurite_type)
        elevations == [i \in DOMAIN vectors |-> elevation(vectors[i])]
    IN IF FirstRaised(elevations) # None THEN FirstRaised(elevations)
       ELSE [out |-> elevations]

---------------------------------------------------------------------------
(* The trunk specification: neurons of single-section neurites that leave
   a soma centred at the origin *)

\* where a trunk starts: one step along x or y, or at the soma center
TrunkOrigins == {<<0, -1, 0>>, <<1, 0, 0>>, <<-1, 0, 0>>, <<0, 1, 0>>, <<0, 0, 0>>}

TrunkTypes == {"axon", "basal_dendrite"}

TrunkSection(o) == <<(<<o[1], o[2], o[3], 1>>), (<<o[1] + 1, o[2], o[3], 1>>)>>

TrunkMorphologies ==
    UNION {{Morphology([s \in 1..n |-> 0], rtype, [s \in 1..n |-> TrunkSection(origin[s])],
                       <<Pt(0, 0)>>)
               : rtype \in [1..n -> TrunkTypes], origin \in [1..n -> TrunkOrigins]}
           : n \in 0..MaxSections}

\* simple_trunk.swc as test_trunk_vectors and test_trunk_angles show it:
\* four trunks, an axon down and two basal dendrites right and left
SIMPLE_TRUNK ==
    Morphology(<<0, 0, 0, 0>>,
               <<"axon", "basal_dendrite", "basal_dendrite", "apical_dendrite">>,
               <<TrunkSection(<<0, -1, 0>>), TrunkSection(<<1, 0, 0>>),
                 TrunkSection(<<-1, 0, 0>>), TrunkSection(<<0, 1, 0>>)>>,
               <<Pt(0, 0)>>)

NeuriteTypeArgs == {"all", "axon", "basal_dendrite", "apical_dendrite"}

InitTrunk ==
    /\ morph \in TrunkMorphologies \cup {SIMPLE_TRUNK}
    /\ call = NoCall
    /\ result = None
    /\ iters = NoIterators
    /\ views = <<>>
    /\ cache = NoCache

TrunkAngles ==
    /\ call = NoCall
    /\ \E neurite_type \in NeuriteTypeArgs :
          /\ call' = [op |-> "trunk_angles", neurite_type |-> neurite_type]
          /\ result' = [out |-> trunk_angles(morph, neurite_type)]
    /\ UNCHANGED <<morph, iters, views, cache>>

TrunkOriginElevations ==
    /\ call = NoCall
    /\ \E neurite_type \in NeuriteTypeArgs :
          /\ call' = [op |-> "trunk_origin_elevations", neurite_type |-> neurite_type]
          /\ result' = trunk_origin_elevations(morph, neurite_type)
    /\ UNCHANGED <<morph, iters, views, cache>>

IterationFunctions == {"iter_neurites", "iter_sections", "iter_segments"}

\* iter_neurites, iter_sections or iter_segments on the neuron with a filter
\* on the neurite type
FilteredIteration ==
    /\ call = NoCall
    /\ \E fn \in IterationFunctions, t \in NeuriteTypeArgs \ {"all"},
          neurite_order \in NeuriteOrders :
          /\ call' = [op |-> fn, obj |-> [kind |-> "Neuron"], mapfun |-> "None",
                      iterator_type |-> "ipreorder", filt |-> IsType(t),
                      neurite_order |-> neurite_order]
          /\ result' =
                CASE fn = "iter_neurites" ->
                        iter_neurites(morph, [kind |-> "Neuron"], "None", IsType(t), neurite_order)
                  [] fn = "iter_sections" ->
                        [out |-> iter_sections(morph, [kind |-> "Neuron"], "ipreorder",
                                               IsType(t), neurite_order)]
                  [] fn = "iter_segments" ->
                        [out |-> iter_segments(morph, [kind |-> "Neuron"], IsType(t),
                                               neurite_order)]
    /\ UNCHANGED <<morph, iters, views, cache>>

NextTrunk == TrunkAngles \/ TrunkOriginElevations \/ FilteredIteration \/ Return

SpecTrunk == InitTrunk /\ [][NextTrunk]_vars

\* test_trunk_angles and test_trunk_origin_elevations
test_trunk_angles ==
    /\ (morph = SIMPLE_TRUNK /\ call.op = "trunk_angles") =>
          /\ call.neurite_type = "all" => result.out = <<Ang(1), Ang(1), Ang(1), Ang(1)>>
          /\ call.neurite_type = "basal_dendrite" => result.out = <<Ang(2), Ang(2)>>
          /\ call.neurite_type = "axon" => result.out = <<Ang(0)>>
    /\ (call.op = "trunk_origin_elevations" /\ call.neurite_type = "basal_dendrite"
          /\ morph = Morphology(<<0, 0, 0>>, [s \in 1..3 |-> "basal_dendrite"],
                                <<TrunkSection(<<1, 0, 0>>), TrunkSection(<<0, 1, 0>>),
                                  TrunkSection(<<0, -1, 0>>)>>, <<Pt(0, 0)>>))
          => result = [out |-> <<Ang(0), Ang(1), Ang(-1)>>]

---------------------------------------------------------------------------
(* Neurite objects and their memoized measures: Neuron.neurites builds the
   objects, length, area and volume are read through memoize, and the
   morphology underneath is changed in place.  Areas are counted in units
   of pi and volumes in units of pi / 3. *)

\* objects the model lets a run build
MaxViews == 3

\* values the model lets memoizer.cache hold
MaxCached == 2

\* the square root of a perfect square
Sqrt(n) == CHOOSE d \in 0..n : d * d = n

\* Section.length: the distances between consecutive points
section_length(pts) ==
    SumSeq([i \in 1..(Len(pts) - 1) |->
               Sqrt(point_dist2(XYZ(pts[i]), XYZ(pts[i + 1])))])

\* Section.area: the lateral areas of the truncated cones between
\* consecutive points, pi * (r1 + r2) * sqrt(h^2 + (r1 - r2)^2)
section_area(pts) ==
    SumSeq([i \in 1..(Len(pts) - 1) |->
               (pts[i][4] + pts[i + 1][4])
                 * Sqrt(point_dist2(XYZ(pts[i]), XYZ(pts[i + 1]))
                          + (pts[i][4] - pts[i + 1][4]) * (pts[i][4] - pts[i + 1][4]))])

\* Section.volume: the frustum volumes (pi * h / 3) * (r1^2 + r1 * r2 + r2^2)
section_volume(pts) ==
    SumSeq([i \in 1..(Len(pts) - 1) |->
               Sqrt(point_dist2(XYZ(pts[i]), XYZ(pts[i + 1])))
                 * (pts[i][4] * pts[i][4] + pts[i][4] * pts[i + 1][4]
                      + pts[i + 1][4] * pts[i + 1][4])])

SectionValue(property, pts) ==
    CASE property = "length" -> section_length(pts)
      [] property = "area"   -> section_area(pts)
      [] property = "volume" -> section_volume(pts)

\* the body of Neurite.length, area and volume:
\* sum(s.length for s in self.iter_sections())
Neurite_measure(m, neurite, property) ==
    LET sections == iter_sections(m, [kind |-> "Neurite", neurite |-> neurite],
                                  "ipreorder", NoFilter, "FileOrder")
    IN SumSeq([i \in DOMAIN sections |-> SectionValue(property, m.points[sections[i]])])

Properties == {"length", "area", "volume"}

\* memoize: the value cached for the arguments, here the object self, if
\* there is one; else the value computed now, which is cached
memoize(c, property, self, value) ==
    IF <<property, self>> \in DOMAIN c
    THEN [out |-> c[<<property, self>>], cache |-> c]
    ELSE [out   |-> value,
          cache |-> [k \in DOMAIN c \cup {<<property, self>>} |->
                        IF k = <<property, self>> THEN value ELSE c[k]]]

\* Neurite.__eq__
Neurite_eq(self, other) == self.type = other.type /\ self.section_id = other.section_id

\* the objects of the last access are handed out again
neurites_cached(m, heap) ==
    LET n == Len(m.root_sections)
    IN IF Len(heap) >= n /\ n > 0
       THEN [heap |-> heap, out |-> [i \in 1..n |-> Len(heap) - n + i]]
       ELSE [heap |-> heap \o Neuron_neurites(m),
             out  |-> [i \in 1..n |-> Len(heap) + i]]

\* Neuron.neurites with the objects it builds: every Neurite(...) of the
\* list is a new object, placed after the objects that exist
neurites(m, heap) ==
    [heap |-> heap \o Neuron_neurites(m),
     out  |-> [i \in DOMAIN m.root_sections |-> Len(heap) + i]]

\* the point lists a section is given: one unit long with radius 1, or two
\* units long with radius 2
ViewPointSeqs ==
    {<<(<<0, 0, 0, 1>>), (<<1, 0, 0, 1>>)>>,
     <<(<<0, 0, 0, 2>>), (<<0, 2, 0, 2>>)>>}

ThinSection == <<(<<0, 0, 0, 1>>), (<<1, 0, 0, 1>>)>>

ViewTypes(n) == [s \in 1..n |-> IF s % 2 = 1 THEN "basal_dendrite" ELSE "axon"]

\* the neurons at construction: forests of thin sections
ViewMorphologies ==
    UNION {{Morphology(p, ViewTypes(n), [s \in 1..n |-> ThinSection], <<Pt(0, 0)>>)
               : p \in ParentVectors(n)}
           : n \in 0..(MaxSections - 1)}

InitViews ==
    /\ morph \in ViewMorphologies
    /\ call = NoCall
    /\ result = None
    /\ iters = NoIterators
    /\ views = <<>>
    /\ cache = NoCache

\* neuron.neurites
AccessNeurites ==
    /\ Len(views) + Len(morph.root_sections) <= MaxViews
    /\ call' = [op |-> "neurites"]
    /\ result' = [out |-> neurites(morph, views).out]
    /\ views' = neurites(morph, views).heap
    /\ UNCHANGED <<morph, iters, cache>>

\* neurite.length, neurite.area or neurite.volume of an object built before
ReadMeasure ==
    \E self \in DOMAIN views, property \in Properties :
        LET r == memoize(cache, property, self, Neurite_measure(morph, views[self], property))
        IN /\ Cardinality(DOMAIN r.cache) <= MaxCached
           /\ call' = [op |-> property, self |-> self]
           /\ result' = [out |-> r.out]
           /\ cache' = r.cache
           /\ UNCHANGED <<morph, iters, views>>

\* section.points = pts, in place on a section of the morphology
SetPoints ==
    \E s \in Sections(morph), pts \in ViewPointSeqs :
        /\ morph.points[s] # pts
        /\ call' = [op |-> "set_points", section |-> s]
        /\ result' = None
        /\ morph' = [morph EXCEPT !.points[s] = pts]
        /\ UNCHANGED <<iters, views, cache>>

\* morphology.append_root_section(...): one more root section, after the
\* others
AppendRootSection ==
    /\ Len(morph.parent) < MaxSections
    /\ call' = [op |-> "append_root_section"]
    /\ result' = None
    /\ morph' = Morphology(morph.parent \o <<0>>, ViewTypes(Len(morph.parent) + 1),
                           morph.points \o <<ThinSection>>, morph.soma)
    /\ UNCHANGED <<iters, views, cache>>

\* the views of a neuron whose root sections change
NextViews == AccessNeurites \/ AppendRootSection \/ SetPoints

SpecViews == InitViews /\ [][NextViews]_vars

\* the memoized measures of a neuron whose points change
NextMemo == AccessNeurites \/ ReadMeasure \/ SetPoints

SpecMemo == InitViews /\ [][NextMemo]_vars

---------------------------------------------------------------------------
(* Helpers of the properties *)

Pos(seq, x) == CHOOSE i \in DOMAIN seq : seq[i] = x

NoDuplicates(seq) == \A i, j \in DOMAIN seq : seq[i] = seq[j] => i = j

RECURSIVE IsAncestorOrSelf(_, _, _)
IsAncestorOrSelf(m, a, d) ==
    \/ a = d
    \/ m.parent[d] # 0 /\ IsAncestorOrSelf(m, a, m.parent[d])

IsProperAncestor(m, a, d) == a # d /\ IsAncestorOrSelf(m, a, d)

Subtree(m, s) == {d \in Sections(m) : IsAncestorOrSelf(m, s, d)}

\* the sections k - 1 child links below a root section
RECURSIVE Level(_, _)
Level(m, k) ==
    IF k = 1 THEN SeqToSet(m.root_sections)
    ELSE UNION {SeqToSet(m.children[x]) : x \in Level(m, k - 1)}

\* depth from the root, counted in sections: a root section has depth 1
DepthFromRoot(m, s) == CHOOSE k \in 1..Cardinality(Sections(m)) : s \in Level(m, k)

---------------------------------------------------------------------------
(* C1: SimulatorOrder *)

C1_Priority(t) ==
    CASE t = "soma" -> 0
      [] t = "axon" -> 1
      [] t = "basal_dendrite" -> 2
      [] t = "apical_dendrite" -> 3
      [] t = "undefined" -> 4
      [] OTHER -> 5

C1_Mapped(t) == t \in {"soma", "axon", "basal_dendrite", "apical_dendrite", "undefined"}

C1_Called ==
    /\ call.op = "iter_neurites"
    /\ call.neurite_order = "NRN"
    /\ call.mapfun = "None"
    /\ call.filt = NoFilter

\* C1: iter_neurites with neurite_order = NRN yields a permutation of the
\* input neurites, sorted by the priority table soma:0 < axon:1 <
\* basal_dendrite:2 < apical_dendrite:3 < undefined:4; neurites of the same
\* type keep their relative order, and a neurite of a type the table does
\* not map comes after every neurite of a mapped type.
C1_SimulatorOrder ==
    C1_Called =>
        LET src == Source(morph, call.obj)
            out == result.out
        IN /\ Len(out) = Len(src)
           /\ SeqToSet(out) = SeqToSet(src)
           /\ NoDuplicates(out)
           /\ \A i, j \in DOMAIN out :
                i < j =>
                  /\ C1_Priority(out[i].type) <= C1_Priority(out[j].type)
                  /\ out[i].type = out[j].type => Pos(src, out[i]) < Pos(src, out[j])
                  /\ ~ (C1_Mapped(out[j].type) /\ ~ C1_Mapped(out[i].type))

\* the sort moved a neurite, two neurites share a type, and one has an
\* unmapped type
C1_Witness ==
    /\ C1_Called
    /\ result.out # Source(morph, call.obj)
    /\ \E i, j \in DOMAIN result.out : i < j /\ result.out[i].type = result.out[j].type
    /\ \E i \in DOMAIN result.out : ~ C1_Mapped(result.out[i].type)

---------------------------------------------------------------------------
(* C2: the sources iter_neurites accepts; filter before map *)

C2_Passes(filt, neurite) == filt = NoFilter \/ neurite.type = filt.type

\* C2: iter_neurites accepts a single neurite (yielding exactly that
\* neurite), an object with a neurites collection, or a raw iterable of
\* neurites; the filter is applied before the map: the result is mapfun
\* applied, in order, to the neurites that satisfy filt, and mapfun is never
\* applied to a neurite that filt rejects.
C2_FilterBeforeMap ==
    call.op = "iter_neurites" =>
        LET src     == CASE call.obj.kind = "Neurite"  -> <<call.obj.neurite>>
                         [] call.obj.kind = "Neuron"   -> Neuron_neurites(morph)
                         [] call.obj.kind = "Iterable" -> call.obj.items
            ordered == IF call.neurite_order = "NRN" THEN sorted_by_nrn(src) ELSE src
            kept    == SelectSeq(ordered, LAMBDA n : C2_Passes(call.filt, n))
        IN /\ (call.obj.kind = "Neurite" /\ call.filt = NoFilter /\ call.mapfun = "None")
                => result.out = <<call.obj.neurite>>
           /\ call.mapfun = "None" => result.out = kept /\ result.calls = <<>>
           /\ call.mapfun = "type" =>
                /\ result.out = [i \in DOMAIN kept |-> kept[i].type]
                /\ result.calls = kept
           /\ \A i \in DOMAIN result.calls : C2_Passes(call.filt, result.calls[i])

\* a filter that rejects some neurites and keeps others, with a map
C2_Witness ==
    /\ call.op = "iter_neurites"
    /\ call.mapfun = "type"
    /\ call.filt # NoFilter
    /\ call.obj.kind = "Iterable"
    /\ result.out # <<>>
    /\ Len(result.out) < Len(call.obj.items)

---------------------------------------------------------------------------
(* C3: iter_sections concatenates per neurite *)

\* C3: iter_sections yields the concatenation, in the order iter_neurites
\* produces the selected neurites (after neurite_filter and neurite_order),
\* of the chosen traversal of each neurite's root section: the sections of
\* an earlier neurite come before those of a later one, and the sections of
\* one neurite appear in the traversal's own order.
C3_SectionsConcatenated ==
    call.op = "iter_sections" =>
        LET ns    == iter_neurites(morph, call.obj, "None", call.filt, call.neurite_order).out
            roots == [k \in DOMAIN ns |-> ns[k].root_node]
            out   == result.out
        IN /\ \A i \in DOMAIN out : RootOf(morph.parent, out[i]) \in SeqToSet(roots)
           /\ \A i, j \in DOMAIN out :
                i < j => Pos(roots, RootOf(morph.parent, out[i]))
                           <= Pos(roots, RootOf(morph.parent, out[j]))
           /\ \A k \in DOMAIN ns :
                SelectSeq(out, LAMBDA x : RootOf(morph.parent, x) = roots[k])
                    = Traverse(call.iterator_type, morph, roots[k])

\* two neurites selected in an order that is not the file order, and a
\* neurite of more than one section
C3_Witness ==
    /\ call.op = "iter_sections"
    /\ call.obj.kind = "Neuron"
    /\ call.neurite_order = "NRN"
    /\ call.iterator_type = "ipostorder"
    /\ Len(result.out) >= 3
    /\ \E i, j \in DOMAIN result.out :
          i < j /\ result.out[i] > result.out[j]
                /\ RootOf(morph.parent, result.out[i]) # RootOf(morph.parent, result.out[j])

---------------------------------------------------------------------------
(* C4: segments *)

\* the pairs (p[i], p[i+1]), i = 1 .. n-1, of a section
C4_Pairs(s) ==
    [i \in 1..(Len(morph.points[s]) - 1) |-> <<morph.points[s][i], morph.points[s][i + 1]>>]

\* C4: iter_segments on a single section of n points yields exactly the
\* n-1 consecutive pairs (p[i], p[i+1]) in order; on a larger source it
\* yields the concatenation of those pairs over the sections in
\* iter_sections order, so the number of segments is the sum over the
\* visited sections of (point count - 1).
C4_Segments ==
    call.op = "iter_segments" =>
        LET out == result.out
        IN /\ call.obj.kind = "Section" =>
                /\ Len(out) = Len(morph.points[call.obj.section]) - 1
                /\ out = C4_Pairs(call.obj.section)
           /\ call.obj.kind # "Section" =>
                LET secs == iter_sections(morph, call.obj, "ipreorder", call.filt,
                                          call.neurite_order)
                IN /\ out = Flatten([k \in DOMAIN secs |-> C4_Pairs(secs[k])])
                   /\ Len(out) = SumSeq([k \in DOMAIN secs |-> Len(morph.points[secs[k]]) - 1])

\* the segments of a neuron of three sections with 1, 2 and 3 points
C4_Witness ==
    /\ call.op = "iter_segments"
    /\ call.obj.kind = "Neuron"
    /\ call.filt = NoFilter
    /\ {Len(morph.points[s]) : s \in Sections(morph)} = {1, 2, 3}
    /\ Len(result.out) = 3

---------------------------------------------------------------------------
(* C5: transform *)

C5_Called == call.op \in {"Neurite.transform", "Neuron.transform"}

C5_Transformed(pt) ==
    IF call.trans = "identity" THEN pt
    ELSE <<pt[1] + 1, pt[2] + 2, pt[3], pt[4]>>

\* C5: transform(trans) on a Neurite and on a Neuron returns a new
\* instance whose point coordinates are trans applied to the original's and
\* leaves the original unchanged.
C5_TransformReturnsCopy ==
    C5_Called =>
        /\ ~ Raised(result)
        /\ \A s \in DOMAIN result.points :
              result.points[s] = [i \in DOMAIN morph.points[s] |->
                                     C5_Transformed(morph.points[s][i])]
        /\ call.op = "Neurite.transform" =>
              DOMAIN result.points = Subtree(morph, call.neurite.root_node)
        /\ call.op = "Neuron.transform" => DOMAIN result.points = Sections(morph)

\* what the code does on every call: a TypeError, the neuron untouched
C5_TransformRaises == C5_Called => result = Raise("TypeError")

---------------------------------------------------------------------------
(* C6: Neurite.points *)

\* C6: Neurite.points is the root section's first point followed, for each
\* section of the pre-order traversal from the root, by that section's
\* points except its first; the number of points is the sum of the
\* sections' point counts minus the number of non-root sections.
C6_PointCloud ==
    call.op = "Neurite.points" =>
        LET root == call.neurite.root_node
            pre  == ipreorder(morph, root)
            rest == Flatten([k \in DOMAIN pre |->
                               SubSeq(morph.points[pre[k]], 2, Len(morph.points[pre[k]]))])
            out  == result.out
        IN /\ out[1] = morph.points[root][1]
           /\ SubSeq(out, 2, Len(out)) = rest
           /\ Len(out) = SumSeq([k \in DOMAIN pre |-> Len(morph.points[pre[k]])])
                            - (Cardinality(Subtree(morph, root)) - 1)

\* the points of a neurite of three sections, seven points in all
C6_Witness ==
    /\ call.op = "Neurite.points"
    /\ Cardinality(Subtree(morph, call.neurite.root_node)) = 3
    /\ \A s \in Sections(morph) : Len(morph.points[s]) >= 2
    /\ \E s \in Sections(morph) : Len(morph.points[s]) = 3
    /\ Len(result.out) = 5

---------------------------------------------------------------------------
(* C7: fresh iterators *)

IsPrefix(a, b) == Len(a) <= Len(b) /\ a = SubSeq(b, 1, Len(a))

C7_Alone(it) ==
    iter_sections(morph, it.args.obj, it.args.iterator_type, it.args.filt,
                  it.args.neurite_order)

\* C7: every call to iter_sections (with any of the five traversals)
\* returns a fresh sequence that shares no state with another: of two
\* iterators over the same morphology advanced in any interleaving, each has
\* yielded a prefix of the sequence it yields when run alone, and all of it
\* when exhausted; so has an iterator created after another was exhausted.
C7_FreshIterators ==
    \A i \in DOMAIN iters :
        iters[i] # None =>
            /\ IsPrefix(iters[i].yielded, C7_Alone(iters[i]))
            /\ iters[i].done => iters[i].yielded = C7_Alone(iters[i])

\* two iterators with the same arguments, one exhausted and the other
\* part of the way through at least three sections
C7_Witness ==
    /\ iters[1] # None /\ iters[2] # None
    /\ iters[1].args = iters[2].args
    /\ iters[1].done
    /\ Len(iters[1].yielded) = 3
    /\ ~ iters[2].done
    /\ Len(iters[2].yielded) = 1

---------------------------------------------------------------------------
(* C8: preorder, postorder, leaves, bifurcation points *)

C8_Called(iterator_type) == call.op = "traverse" /\ call.iterator_type = iterator_type

\* every section of the subtree of the start node, exactly once
C8_VisitsSubtreeOnce(out, s) ==
    /\ NoDuplicates(out)
    /\ SeqToSet(out) = Subtree(morph, s)
    /\ Len(out) = Cardinality(Subtree(morph, s))

\* C8: preorder and postorder each visit every node of the subtree rooted
\* at the start node exactly once (N nodes for an N-node tree); in preorder
\* a node comes before all of its descendants, depth-first with children in
\* stored order; in postorder a node comes after all of its descendants;
\* leaves yields the preorder nodes with 0 children and bifurcation_points
\* those with 2 or more children.
C8_Traversals ==
    /\ C8_Called("ipreorder") =>
          LET out == result.out
          IN /\ C8_VisitsSubtreeOnce(out, call.node)
             /\ \A i, j \in DOMAIN out :
                   IsProperAncestor(morph, out[i], out[j]) => i < j
             \* depth-first: a subtree is a block that starts at its root
             /\ \A i \in DOMAIN out :
                   {out[j] : j \in i..(i + Cardinality(Subtree(morph, out[i])) - 1)}
                       = Subtree(morph, out[i])
             \* siblings in the order their parent stores them
             /\ \A x \in SeqToSet(out) : \A a, b \in DOMAIN morph.children[x] :
                   a < b => Pos(out, morph.children[x][a]) < Pos(out, morph.children[x][b])
    /\ C8_Called("ipostorder") =>
          LET out == result.out
          IN /\ C8_VisitsSubtreeOnce(out, call.node)
             /\ \A i, j \in DOMAIN out :
                   IsProperAncestor(morph, out[i], out[j]) => j < i
    /\ C8_Called("ileaf") =>
          result.out = SelectSeq(ipreorder(morph, call.node),
                                 LAMBDA x : Len(morph.children[x]) = 0)
    /\ C8_Called("ibifurcation_point") =>
          result.out = SelectSeq(ipreorder(morph, call.node),
                                 LAMBDA x : Len(morph.children[x]) >= 2)

\* a preorder traversal started at a fork of two leaves
C8_Witness ==
    /\ C8_Called("ipreorder")
    /\ Len(morph.children[call.node]) >= 2
    /\ Len(result.out) = 3

---------------------------------------------------------------------------
(* C9: upstream *)

\* C9: upstream from a node yields that node, then its parent, then its
\* grandparent, ..., ends with the root and terminates; from a leaf it
\* yields as many nodes as the leaf's depth from the root (the sections on
\* the path, the root included: a root has depth 1), and on a single-node
\* tree it yields exactly the root.
C9_Upstream ==
    C8_Called("iupstream") =>
        LET out == result.out
        IN /\ Len(out) >= 1
           /\ out[1] = call.node
           /\ \A i \in 1..(Len(out) - 1) : out[i + 1] = morph.parent[out[i]]
           /\ morph.parent[out[Len(out)]] = 0
           /\ out[Len(out)] \in SeqToSet(morph.root_sections)
           /\ Len(morph.children[call.node]) = 0
                 => Len(out) = DepthFromRoot(morph, call.node)
           /\ (morph.parent[call.node] = 0 /\ Len(morph.children[call.node]) = 0)
                 => out = <<call.node>>

\* upstream from a leaf two links below its root
C9_Witness ==
    /\ C8_Called("iupstream")
    /\ Len(morph.children[call.node]) = 0
    /\ Len(result.out) = 3

---------------------------------------------------------------------------
(* C10: Sholl crossings *)

\* the segments of the neuron: <<section, index of the first point>>
C10_Segments ==
    UNION {{<<s, i>> : i \in 1..(Len(morph.points[s]) - 1)} : s \in Sections(morph)}

C10_Dist2(center, pt) ==
    (pt[1] - center[1]) * (pt[1] - center[1]) + (pt[2] - center[2]) * (pt[2] - center[2])
        + (pt[3] - center[3]) * (pt[3] - center[3])

\* one end at distance less than r, the other at distance r or more
C10_StraddlesStrictly(center, r, seg) ==
    LET a == C10_Dist2(center, morph.points[seg[1]][seg[2]])
        b == C10_Dist2(center, morph.points[seg[1]][seg[2] + 1])
    IN (a < r * r /\ b >= r * r) \/ (b < r * r /\ a >= r * r)

\* one end at distance r or less, the other at distance r or more
C10_Straddles(center, r, seg) ==
    LET a == C10_Dist2(center, morph.points[seg[1]][seg[2]])
        b == C10_Dist2(center, morph.points[seg[1]][seg[2] + 1])
    IN (a <= r * r /\ b >= r * r) \/ (b <= r * r /\ a >= r * r)

\* C10 as stated: one count per radius, in the order of the radii; the
\* count for r is the number of segments, over all sections of all
\* neurites, with one end at distance less than r from the center and the
\* other at distance r or more.
C10_ShollStrict ==
    call.op = "sholl_crossings" =>
        /\ Len(result.out) = Len(call.radii)
        /\ \A k \in DOMAIN call.radii :
              result.out[k] = Cardinality({seg \in C10_Segments :
                                  C10_StraddlesStrictly(call.center, call.radii[k], seg)})

\* C10, amended: one count per radius, in the order of the radii (none for
\* an empty list); the count for r is the number of segments, over all
\* sections of all neurites whatever their type, with one end at distance r
\* or less from the center and the other at distance r or more: an end on
\* the sphere counts from either side.
C10_ShollInclusive ==
    call.op = "sholl_crossings" =>
        /\ Len(result.out) = Len(call.radii)
        /\ \A k \in DOMAIN call.radii :
              result.out[k] = Cardinality({seg \in C10_Segments :
                                  C10_Straddles(call.center, call.radii[k], seg)})

\* the radii 1, 4, 5 on simple.swc: at 4 and 5 segments start on the sphere
C10_Witness ==
    /\ call.op = "sholl_crossings"
    /\ morph = SIMPLE
    /\ call.center = <<0, 0, 0>>
    /\ call.radii = <<10, 40, 50>>
    /\ result.out = <<2, 4, 5>>

---------------------------------------------------------------------------
(* C11: Sholl counts do not depend on the neurite order *)

\* C11: for every neuron, center and radii list, the Sholl counts are the
\* same whether the segments are enumerated with neurite order FileOrder or
\* NRN: they are the counts sholl_crossings returns, and the segments of the
\* two orders are the same up to their order.
C11_ShollOrderInvariant ==
    call.op = "sholl_crossings_in_order" =>
        LET file == iter_segments(morph, [kind |-> "Neuron"], NoFilter, "FileOrder")
        IN /\ result.out = sholl_crossings(morph, [kind |-> "Neuron"], call.center, call.radii)
           /\ Len(result.segments) = Len(file)
           /\ \A seg \in SeqToSet(file) \cup SeqToSet(result.segments) :
                 Len(SelectSeq(result.segments, LAMBDA x : x = seg))
                     = Len(SelectSeq(file, LAMBDA x : x = seg))

\* NRN order yields the segments in another order than the file, and some
\* of them cross a radius
C11_Witness ==
    /\ call.op = "sholl_crossings_in_order"
    /\ call.neurite_order = "NRN"
    /\ result.segments # iter_segments(morph, [kind |-> "Neuron"], NoFilter, "FileOrder")
    /\ Len(call.radii) = 3
    /\ \A k \in DOMAIN result.out : result.out[k] > 0

---------------------------------------------------------------------------
(* C12: trunk_angles.  As stated: the angle between consecutive trunk
   direction vectors in file order among the matching neurites, and an
   empty sequence with fewer than two matching trunks. *)

\* the angle of two vectors of the x-y plane by the sign of their dot product
DotAngle(a, b) ==
    IF (a[1] = 0 /\ a[2] = 0) \/ (b[1] = 0 /\ b[2] = 0) THEN NaN
    ELSE LET dot == a[1] * b[1] + a[2] * b[2]
         IN IF dot > 0 THEN Ang(0) ELSE IF dot = 0 THEN Ang(1) ELSE Ang(2)

\* the place of a direction anticlockwise from the y axis, as argsort sees
\* it: down, right, up, left, and the trunks without direction last
AngleRank(v) ==
    CASE v[1] = 0 /\ v[2] < 0 -> 1
      [] v[1] > 0 /\ v[2] = 0 -> 2
      [] v[1] = 0 /\ v[2] > 0 -> 3
      [] v[1] < 0 /\ v[2] = 0 -> 4
      [] v[1] = 0 /\ v[2] = 0 -> 5

\* the directions of the matching trunks read off the morphology: for every
\* root section of the type, in file order, its first point from the soma
TrunkDirections(neurite_type) ==
    LET roots == SelectSeq(morph.root_sections,
                           LAMBDA s : neurite_type = "all" \/ morph.type[s] = neurite_type)
    IN [i \in DOMAIN roots |-> <<morph.points[roots[i]][1][1] - morph.soma[1][1],
                                 morph.points[roots[i]][1][2] - morph.soma[1][2],
                                 morph.points[roots[i]][1][3] - morph.soma[1][3]>>]

Orderings(n) == {f \in [1..n -> 1..n] : \A i, j \in 1..n : f[i] = f[j] => i = j}

C12_SingleTrunk ==
    call.op = "trunk_angles" /\ Len(TrunkDirections(call.neurite_type)) = 1
        /\ result.out = <<Ang(0)>>

---------------------------------------------------------------------------
(* C13: trunk_origin_elevations raises a catchable error whenever a matching
   trunk's direction vector (trunk origin minus soma center) has zero norm,
   and only then; a result that is returned holds one elevation per matching
   trunk, none of them nan and none standing for a trunk without direction *)

C13_ZeroNormRaises ==
    call.op = "trunk_origin_elevations" =>
        LET vs         == TrunkDirections(call.neurite_type)
            degenerate == \E i \in DOMAIN vs : vs[i] = <<0, 0, 0>>
        IN /\ degenerate <=> Raised(result)
           /\ degenerate => result = Raise("ValueError")
           /\ ~degenerate =>
                 /\ Len(result.out) = Len(vs)
                 /\ \A i \in DOMAIN vs :
                       /\ result.out[i] # NaN
                       /\ result.out[i] = Ang(IF vs[i][2] > 0 THEN 1
                                              ELSE IF vs[i][2] < 0 THEN -1 ELSE 0)

\* the trunk without direction is the last of three, after two that have one
C13_Witness ==
    /\ call.op = "trunk_origin_elevations" /\ call.neurite_type = "axon"
    /\ Len(TrunkDirections("axon")) = 2 /\ Len(TrunkDirections("all")) = 3
    /\ TrunkDirections("all")[3] = <<0, 0, 0>> /\ morph.type[3] = "axon"
    /\ TrunkDirections("axon")[1] # <<0, 0, 0>>
    /\ result = Raise("ValueError")

---------------------------------------------------------------------------
(* C14: when no neurite matches the filter, iter_neurites, iter_sections
   and iter_segments yield nothing, and trunk_angles and
   trunk_origin_elevations return an empty result; none of them raises *)

C14_EmptySelection ==
    /\ (call.op \in IterationFunctions
           /\ \A s \in SeqToSet(morph.root_sections) : morph.type[s] # call.filt.type)
          => result.out = <<>>
    /\ (call.op \in {"trunk_angles", "trunk_origin_elevations"}
           /\ call.neurite_type # "all"
           /\ \A s \in SeqToSet(morph.root_sections) : morph.type[s] # call.neurite_type)
          => (~Raised(result) /\ result.out = <<>>)

\* three axons, one of them without direction, and the basal dendrites are
\* asked for
C14_Witness ==
    /\ call.op = "iter_segments"
    /\ Len(morph.root_sections) = 3
    /\ \A s \in SeqToSet(morph.root_sections) : morph.type[s] = "axon"
    /\ \E s \in SeqToSet(morph.root_sections) : XYZ(morph.points[s][1]) = <<0, 0, 0>>
    /\ call.filt = IsType("basal_dendrite")
    /\ iter_segments(morph, [kind |-> "Neuron"], NoFilter, call.neurite_order) # <<>>
    /\ result.out = <<>>

---------------------------------------------------------------------------
(* C15: a neurite's length, area and volume are each the sum of the
   per-section value over the sections of its pre-order traversal, and a
   read is never stale: whatever reads and in-place changes of section
   points came before, it returns the sum over the sections' current
   points *)

C15_NeverStale ==
    call.op \in Properties =>
        LET root == views[call.self].section_id
            secs == ipreorder(morph, root)
        IN result.out = SumSeq([i \in DOMAIN secs |->
                                   SectionValue(call.op, morph.points[secs[i]])])

\* a read that computes: nothing was cached for the object
C15_FirstReadIsTheSum ==
    [][\A self \in DOMAIN views, property \in Properties :
          (call' = [op |-> property, self |-> self] /\ <<property, self>> \notin DOMAIN cache)
             => LET secs == ipreorder(morph, views[self].section_id)
                IN result'.out = SumSeq([i \in DOMAIN secs |->
                                            SectionValue(property, morph.points[secs[i]])])]_vars

\* the length of a neurite of two sections was read, a section was changed
\* in place, and the length read again is the one from before
C15_StaleRead ==
    /\ call.op = "length"
    /\ Len(ipreorder(morph, views[call.self].section_id)) = 2
    /\ result.out = 2
    /\ Neurite_measure(morph, views[call.self], "length") = 3

---------------------------------------------------------------------------
(* C16: every access to Neuron.neurites builds new Neurite objects, one per
   current root section in root-section order: none of them existed before
   the access, the objects that existed are left as they were, an access
   after the root sections changed shows the root sections as they are
   now, and two accesses with nothing in between return different objects
   that are equal one by one *)

C16_NewViewsEveryAccess ==
    [][call'.op = "neurites" =>
          /\ Len(result'.out) = Len(morph'.root_sections)
          /\ \A i \in DOMAIN result'.out :
                /\ result'.out[i] \notin DOMAIN views
                /\ result'.out[i] \in DOMAIN views'
                /\ \A j \in DOMAIN result'.out : result'.out[i] = result'.out[j] => i = j
                /\ views'[result'.out[i]].section_id = morph'.root_sections[i]
                /\ views'[result'.out[i]].type = morph'.type[morph'.root_sections[i]]
          /\ \A o \in DOMAIN views : views'[o] = views[o]
          /\ call.op = "neurites" =>
                /\ Len(result'.out) = Len(result.out)
                /\ \A i \in DOMAIN result.out :
                      /\ result'.out[i] # result.out[i]
                      /\ result'.out[i] \notin SeqToSet(result.out)
                      /\ Neurite_eq(views'[result'.out[i]], views[result.out[i]])]_vars

\* a neuron of one root section was accessed, a root section was appended,
\* and the access after it returns two objects
C16_Witness ==
    /\ call.op = "neurites"
    /\ Len(result.out) = 2
    /\ Len(views) = 3
    /\ views[1].section_id = views[2].section_id
    /\ views[3].section_id = morph.root_sections[2]

====
